---- MODULE Spec2Model ----
(***************************************************************************)
(* The serverless FinOps dashboard script (src/app.py) as a state machine. *)
(*                                                                         *)
(* The script runs top to bottom once per page run; every widget change    *)
(* starts a new run of the whole script with the widget values kept in the *)
(* session.  `step` is the position of the current run in the script.      *)
(*                                                                         *)
(* Text is modelled as a sequence of symbols.  Every symbol is one         *)
(* character, except that a column name of the header line is one symbol   *)
(* (no modelled line cuts a column name in two).  Numbers are integers; a  *)
(* quotient a/b is kept as the pair <<a, b>> and compared by cross         *)
(* multiplication with the IEEE rules for a zero divisor; a missing value  *)
(* (NaN) is the empty tuple.                                               *)
(***************************************************************************)
EXTENDS Integers, Sequences, FiniteSets, TLC

VARIABLES
    fileExists,   \* os.path.exists(FILE_NAME)
    raw,          \* the lines of the file on disk
    session,      \* "new" before the first run has drawn the widgets, then "live"
    env_sel,      \* sidebar multiselect value
    cost_sel,     \* sidebar slider value <<lo, hi>>
    mem_t,        \* tab2 slider
    dur_t,        \* tab2 slider
    cold,         \* tab3 slider
    step,         \* position of the run in the script
    failedAt,     \* the step that raised, "none" otherwise
    page,         \* the elements the run has put on the page, in order
    parsed,       \* script variable parsed
    df,           \* script variable df (the base table)
    data,         \* script variable data (the filtered working set)
    df80,         \* tab1: cost-descending table with Cum%
    rs,           \* tab2 table
    pc,           \* tab3 table
    low,          \* tab4 table
    beta,         \* tab5: result of np.polyfit
    predicted,    \* tab5: predicted cost
    cont          \* tab6 table

vars == <<fileExists, raw, session, env_sel, cost_sel, mem_t, dur_t, cold, step,
          failedAt, page, parsed, df, data, df80, rs, pc, low, beta, predicted, cont>>

-----------------------------------------------------------------------------
(* Symbols and numbers *)

FILE_NAME == "Serverless_Data.csv"

Quote == "\""

Comma == ","

NaN == <<>>

None == <<"<None>">>

IsNaN(v) == v = NaN

Num(n) == <<n>>

Val(v) == v[1]

Columns == <<"FunctionName", "Environment", "InvocationsPerMonth", "AvgDurationMs",
             "MemoryMB", "ColdStartRate", "ProvisionedConcurrency", "GBSeconds",
             "DataTransferGB", "CostUSD">>

NumericColumns == {"InvocationsPerMonth", "AvgDurationMs", "MemoryMB", "ColdStartRate",
                   "ProvisionedConcurrency", "GBSeconds", "DataTransferGB", "CostUSD"}

Range(s) == {s[i] : i \in DOMAIN s}

-----------------------------------------------------------------------------
(* CSV loader: line 25 *)

StartsWithQuote(line) == Len(line) > 0 /\ line[1] = Quote

\* Python line[1:-1]
StripFirstLast(line) == SubSeq(line, 2, Len(line) - 1)

\* Python str.split(","): always at least one token; tokens may be empty
RECURSIVE Split(_)
Split(s) ==
    IF Comma \notin Range(s)
    THEN <<s>>
    ELSE LET i == CHOOSE k \in DOMAIN s : s[k] = Comma /\ \A j \in 1..(k - 1) : s[j] # Comma
         IN  <<SubSeq(s, 1, i - 1)>> \o Split(SubSeq(s, i + 1, Len(s)))

ParseLine(line) == IF StartsWithQuote(line) THEN Split(StripFirstLast(line)) ELSE Split(line)

ParseLines(lines) == [i \in DOMAIN lines |-> ParseLine(lines[i])]

-----------------------------------------------------------------------------
(* pd.DataFrame(parsed[1:], columns=parsed[0]): line 26 *)

MaxOf(S) == CHOOSE m \in S : \A x \in S : x <= m

MinOf(S) == CHOOSE m \in S : \A x \in S : m <= x

RowWidth(rows) == MaxOf({Len(rows[i]) : i \in DOMAIN rows})

\* parsed[0] raises IndexError on an empty file; pandas raises ValueError when the
\* widest row has not exactly as many tokens as the header
FrameRaises(p) ==
    \/ p = <<>>
    \/ Len(p) > 1 /\ RowWidth(Tail(p)) # Len(p[1])

ColumnName(tok) == IF Len(tok) = 1 THEN tok[1] ELSE "?"

\* rows shorter than the widest one are padded with None
FrameRow(header, tokens) ==
    [c \in {ColumnName(header[k]) : k \in DOMAIN header} |->
        LET k == CHOOSE j \in DOMAIN header : ColumnName(header[j]) = c
        IN  IF k <= Len(tokens) THEN tokens[k] ELSE None]

DataFrame(p) == [i \in 1..(Len(p) - 1) |-> FrameRow(p[1], p[i + 1])]

-----------------------------------------------------------------------------
(* pd.to_numeric(errors="coerce"): lines 29-31 *)

Digits == {"0", "1", "2", "3", "4", "5", "6", "7", "8", "9"}

DigitVal(c) ==
    CASE c = "0" -> 0 [] c = "1" -> 1 [] c = "2" -> 2 [] c = "3" -> 3 [] c = "4" -> 4
      [] c = "5" -> 5 [] c = "6" -> 6 [] c = "7" -> 7 [] c = "8" -> 8 [] c = "9" -> 9

RECURSIVE DigitsVal(_)
DigitsVal(s) ==
    IF s = <<>> THEN 0
    ELSE 10 * DigitsVal(SubSeq(s, 1, Len(s) - 1)) + DigitVal(s[Len(s)])

AllDigits(s) == s # <<>> /\ \A i \in DOMAIN s : s[i] \in Digits

\* a decimal integer with an optional sign parses; anything else is missing
ToNumeric(tok) ==
    IF tok = None THEN NaN
    ELSE IF AllDigits(tok) THEN Num(DigitsVal(tok))
    ELSE IF Len(tok) > 1 /\ tok[1] = "-" /\ AllDigits(Tail(tok)) THEN Num(0 - DigitsVal(Tail(tok)))
    ELSE NaN

CoerceRow(r) == [c \in DOMAIN r |-> IF c \in NumericColumns THEN ToNumeric(r[c]) ELSE r[c]]

Coerce(t) == [i \in DOMAIN t |-> CoerceRow(t[i])]

\* df[c] raises KeyError when the header lacks a numeric column
CoerceRaises(header) == ~(NumericColumns \subseteq {ColumnName(header[k]) : k \in DOMAIN header})

-----------------------------------------------------------------------------
(* Arithmetic on cells.  A cell is NaN, Num(n), or a quotient <<n, d>>.     *)

Indices(t) == [i \in DOMAIN t |-> i]

\* Series.sum(): missing values are skipped, the empty sum is 0
RECURSIVE SumOf(_)
SumOf(cells) ==
    IF cells = <<>> THEN 0
    ELSE (IF IsNaN(Head(cells)) THEN 0 ELSE Val(Head(cells))) + SumOf(Tail(cells))

Present(cells) == SelectSeq(cells, LAMBDA v : ~IsNaN(v))

\* cell / total * 100 in IEEE arithmetic: NaN stays NaN, 0/0 is NaN, n/0 is an infinity
Share(cell, total) ==
    IF IsNaN(cell) \/ (Val(cell) = 0 /\ total = 0) THEN NaN
    ELSE <<100 * Val(cell), total>>

\* quotient < k and quotient <= k; every comparison with NaN is false
QuotLT(q, k) ==
    /\ ~IsNaN(q)
    /\ IF q[2] > 0 THEN q[1] < k * q[2]
       ELSE IF q[2] < 0 THEN q[1] > k * q[2]
       ELSE q[1] < 0

QuotLE(q, k) ==
    /\ ~IsNaN(q)
    /\ IF q[2] > 0 THEN q[1] <= k * q[2]
       ELSE IF q[2] < 0 THEN q[1] >= k * q[2]
       ELSE q[1] < 0

\* comparisons of a cell with a number; false on NaN
GE(cell, k) == ~IsNaN(cell) /\ Val(cell) >= k

LE(cell, k) == ~IsNaN(cell) /\ Val(cell) <= k

GT(cell, k) == ~IsNaN(cell) /\ Val(cell) > k

RECURSIVE Insert(_, _)
Insert(x, s) ==
    IF s = <<>> THEN <<x>>
    ELSE IF x <= Head(s) THEN <<x>> \o s
    ELSE <<Head(s)>> \o Insert(x, Tail(s))

RECURSIVE SortAsc(_)
SortAsc(s) == IF s = <<>> THEN <<>> ELSE Insert(Head(s), SortAsc(Tail(s)))

\* Series.median(): missing values are skipped; NaN when nothing is left.
\* Kept as the quotient (sum of the two middle values) / 2.
Median(cells) ==
    LET v == SortAsc([i \in DOMAIN Present(cells) |-> Val(Present(cells)[i])])
        n == Len(v)
    IN  IF n = 0 THEN NaN
        ELSE IF n % 2 = 1 THEN <<2 * v[(n + 1) \div 2], 2>>
        ELSE <<v[n \div 2] + v[n \div 2 + 1], 2>>

\* cell > median, cell < median
AboveMedian(cell, m) == ~IsNaN(cell) /\ ~IsNaN(m) /\ 2 * Val(cell) > m[1]

BelowMedian(cell, m) == ~IsNaN(cell) /\ ~IsNaN(m) /\ 2 * Val(cell) < m[1]

\* Series.mean(): NaN on nothing
Mean(cells) == IF Present(cells) = <<>> THEN NaN ELSE <<SumOf(cells), Len(Present(cells))>>

-----------------------------------------------------------------------------
(* Sidebar and the filtered working set: lines 38-49 *)

\* df["Environment"].unique()
envs(t) == {t[i]["Environment"] : i \in DOMAIN t}

CostValues(t) == {Val(t[i]["CostUSD"]) : i \in {j \in DOMAIN t : ~IsNaN(t[j]["CostUSD"])}}

\* df.CostUSD.min(), df.CostUSD.max(): NaN when no cost parsed
CostMin(t) == IF CostValues(t) = {} THEN NaN ELSE Num(MinOf(CostValues(t)))

CostMax(t) == IF CostValues(t) = {} THEN NaN ELSE Num(MaxOf(CostValues(t)))

\* Series.isin
IsIn(cell, sel) == cell \in sel

\* the range test with both ends excluded
BetweenExclusive(cell, lo, hi) ==
    ~IsNaN(cell) /\ ~IsNaN(lo) /\ ~IsNaN(hi) /\ Val(lo) < Val(cell) /\ Val(cell) < Val(hi)

\* Series.between(lo, hi): inclusive on both sides, false on NaN
Between(cell, lo, hi) ==
    ~IsNaN(cell) /\ ~IsNaN(lo) /\ ~IsNaN(hi) /\ Val(lo) <= Val(cell) /\ Val(cell) <= Val(hi)

\* the rows of df kept by the mask of line 46, by index label, in df's order
Mask(t, sel, cs) ==
    SelectSeq(Indices(t),
              LAMBDA i : IsIn(t[i]["Environment"], sel) /\ Between(t[i]["CostUSD"], cs[1], cs[2]))

\* data = df[mask].copy() with the two share columns of lines 48-49
WorkingSet(t, sel, cs) ==
    LET keep == Mask(t, sel, cs)
        costs == [k \in DOMAIN keep |-> t[keep[k]]["CostUSD"]]
        invs  == [k \in DOMAIN keep |-> t[keep[k]]["InvocationsPerMonth"]]
    IN  [k \in DOMAIN keep |->
            [idx |-> keep[k],
             row |-> t[keep[k]],
             CostShare |-> Share(costs[k], SumOf(costs)),
             InvocationShare |-> Share(invs[k], SumOf(invs))]]

Cost(r) == r.row["CostUSD"]

-----------------------------------------------------------------------------
(* The six views *)

ParetoCutoff == 80

ContainerDurationMs == 3000

ContainerMemoryMB == 2048

ChartHead == 10

Idx(t) == [k \in DOMAIN t |-> t[k].idx]

IsPermutation(p, n) == \A i \in 1..n : \E j \in 1..n : p[j] = i

\* the sort without ascending=False
SortValuesAsc(d) ==
    {[k \in DOMAIN d |-> d[p[k]]] :
        p \in {q \in [DOMAIN d -> DOMAIN d] :
                 /\ IsPermutation(q, Len(d))
                 /\ \A k \in 1..(Len(d) - 1) : Val(Cost(d[q[k]])) <= Val(Cost(d[q[k + 1]]))}}

\* data.sort_values("CostUSD", ascending=False): the default sort kind is not
\* stable, so rows of equal cost may come out in any order
SortValuesDesc(d) ==
    {[k \in DOMAIN d |-> d[p[k]]] :
        p \in {q \in [DOMAIN d -> DOMAIN d] :
                 /\ IsPermutation(q, Len(d))
                 /\ \A k \in 1..(Len(d) - 1) : Val(Cost(d[q[k]])) >= Val(Cost(d[q[k + 1]]))}}

\* Cum% without the cumsum(): each row's own share
WithCumNoCumsum(sorted) ==
    LET costs == [k \in DOMAIN sorted |-> Cost(sorted[k])]
    IN  [k \in DOMAIN sorted |->
            [idx |-> sorted[k].idx,
             row |-> sorted[k].row,
             CostShare |-> sorted[k].CostShare,
             InvocationShare |-> sorted[k].InvocationShare,
             Cum |-> Share(costs[k], SumOf(costs))]]

\* df80["Cum%"] = df80.CostUSD.cumsum() / df80.CostUSD.sum() * 100
WithCum(sorted) ==
    LET costs == [k \in DOMAIN sorted |-> Cost(sorted[k])]
    IN  [k \in DOMAIN sorted |->
            [idx |-> sorted[k].idx,
             row |-> sorted[k].row,
             CostShare |-> sorted[k].CostShare,
             InvocationShare |-> sorted[k].InvocationShare,
             Cum |-> Share(Num(SumOf(SubSeq(costs, 1, k))), SumOf(costs))]]

\* the rows up to and including the first one that takes Cum% past the cutoff
TopSpendersThroughCrossing(t) ==
    LET keep == SelectSeq(Indices(t),
                          LAMBDA k : \/ QuotLE(t[k].Cum, ParetoCutoff)
                                     \/ k = 1
                                     \/ QuotLT(t[k - 1].Cum, ParetoCutoff))
    IN  [j \in DOMAIN keep |-> t[keep[j]]]

\* df80[df80["Cum%"] <= 80]
TopSpenders(t) == SelectSeq(t, LAMBDA r : QuotLE(r.Cum, ParetoCutoff))

\* df80.head(10)
Head10(t) == SubSeq(t, 1, IF Len(t) < ChartHead THEN Len(t) ELSE ChartHead)

\* data[(data.MemoryMB>=mem_t) & (data.AvgDurationMs<=dur_t)]
RightSizing(d, m, t) ==
    SelectSeq(d, LAMBDA r : GE(r.row["MemoryMB"], m) /\ LE(r.row["AvgDurationMs"], t))

\* data[(data.ProvisionedConcurrency>0) & (data.ColdStartRate<=cold)]
ProvisionedCandidates(d, c) ==
    SelectSeq(d, LAMBDA r : GT(r.row["ProvisionedConcurrency"], 0) /\ LE(r.row["ColdStartRate"], c))

\* the low-value filter reading CostShare% in place of Invocation%
LowValueByCostShare(d) ==
    LET m == Median([k \in DOMAIN d |-> Cost(d[k])])
    IN  SelectSeq(d, LAMBDA r : QuotLT(r.CostShare, 1) /\ AboveMedian(Cost(r), m))

\* data[(data["Invocation%"]<1) & (data.CostUSD>data.CostUSD.median())]
LowValue(d) ==
    LET m == Median([k \in DOMAIN d |-> Cost(d[k])])
    IN  SelectSeq(d, LAMBDA r : QuotLT(r.InvocationShare, 1) /\ AboveMedian(Cost(r), m))

\* data[(AvgDurationMs>=3000) & (MemoryMB>=2048) & (InvocationsPerMonth<median)]
Containerization(d) ==
    LET m == Median([k \in DOMAIN d |-> d[k].row["InvocationsPerMonth"]])
    IN  SelectSeq(d, LAMBDA r : /\ GE(r.row["AvgDurationMs"], ContainerDurationMs)
                                /\ GE(r.row["MemoryMB"], ContainerMemoryMB)
                                /\ BelowMedian(r.row["InvocationsPerMonth"], m))

\* X = data.InvocationsPerMonth * data.AvgDurationMs * data.MemoryMB
Regressor(d) ==
    [k \in DOMAIN d |->
        LET i == d[k].row["InvocationsPerMonth"]
            a == d[k].row["AvgDurationMs"]
            m == d[k].row["MemoryMB"]
        IN  IF IsNaN(i) \/ IsNaN(a) \/ IsNaN(m) THEN NaN ELSE Num(Val(i) * Val(a) * Val(m))]

\* np.polyfit(X, Y, 1).  The outcomes, by kind (the values of the coefficients are
\* not modelled):
\*   "TypeError"  x is empty: polyfit raises
\*   "LinAlgError" / "nan"  x or y holds a NaN: the LAPACK driver either fails to
\*                converge (raised) or returns NaN coefficients, by build
\*   "rankdef"    fewer than two distinct x: the least-squares system is rank
\*                deficient; coefficients are returned with a RankWarning
\*   "fit"        otherwise
Polyfit(X, Y) ==
    IF Len(X) = 0 THEN {"TypeError"}
    ELSE IF (\E k \in DOMAIN X : IsNaN(X[k])) \/ (\E k \in DOMAIN Y : IsNaN(Y[k]))
         THEN {"LinAlgError", "nan"}
    ELSE IF Cardinality(Range(X)) < 2 THEN {"rankdef"}
    ELSE {"fit"}

PolyfitRaises(kind) == kind \in {"TypeError", "LinAlgError"}

\* predicted = C1*(inv*dur*mem) + C2*data_gb + C0
Predict(kind) == IF kind = "nan" THEN "nan" ELSE "value"

Element(kind, at, body) == [kind |-> kind, at |-> at, body |-> body]

-----------------------------------------------------------------------------
(* Widgets *)

MemDefault == 2048

DurDefault == 600

ColdDefault == 5

\* the slider positions a user moves to: the default and one other in range
MemChoices == {MemDefault, 4096}

DurChoices == {DurDefault, 50}

ColdChoices == {ColdDefault, 0}

\* positions of the cost slider: both ends and the point next to the lower end
CostStops(t) ==
    IF CostValues(t) = {} THEN {}
    ELSE {v \in MinOf(CostValues(t))..MaxOf(CostValues(t)) :
            \/ v = MinOf(CostValues(t))
            \/ v = MaxOf(CostValues(t))
            \/ v = MinOf(CostValues(t)) + 1}

CostRanges(t) ==
    {<<Num(p[1]), Num(p[2])>> : p \in {q \in CostStops(t) \X CostStops(t) : q[1] <= q[2]}}

\* st.slider with NaN bounds (no cost parsed): the call either raises or returns
\* the NaN pair
SliderOutcomes(t) == IF CostValues(t) = {} THEN {"raise", "nan"} ELSE {"ok"}

-----------------------------------------------------------------------------
(* The run of the script *)

Steps == <<"exists", "read", "frame", "coerce", "sidebar", "metrics",
           "tab1", "tab2", "tab3", "tab4", "tab5", "tab6", "done">>

StepNo(s) == CHOOSE k \in DOMAIN Steps : Steps[k] = s

\* how far the finished run got: the step that raised, or "done"
Reached == IF step = "done" THEN "done" ELSE failedAt

Unset ==
    /\ parsed = <<>>
    /\ df = <<>>
    /\ data = <<>>
    /\ df80 = <<>>
    /\ rs = <<>>
    /\ pc = <<>>
    /\ low = <<>>
    /\ beta = "none"
    /\ predicted = "none"
    /\ cont = <<>>

\* an uncaught exception: streamlit shows it and the run ends
Raise(at) ==
    /\ step' = "error"
    /\ failedAt' = at
    /\ page' = Append(page, Element("exception", at, <<>>))

\* the missing-file branch without st.stop(): the script goes on
CheckFileNoStop ==
    /\ step = "exists"
    /\ page' = IF fileExists
               THEN page \o <<Element("title", "exists", <<>>), Element("write", "exists", <<>>)>>
               ELSE page \o <<Element("title", "exists", <<>>), Element("write", "exists", <<>>),
                              Element("error", "exists", <<FILE_NAME>>)>>
    /\ step' = "read"
    /\ UNCHANGED <<fileExists, raw, session, env_sel, cost_sel, mem_t, dur_t, cold, failedAt,
                   parsed, df, data, df80, rs, pc, low, beta, predicted, cont>>

\* lines 10-21
CheckFile ==
    /\ step = "exists"
    /\ IF fileExists
       THEN /\ page' = page \o <<Element("title", "exists", <<>>), Element("write", "exists", <<>>)>>
            /\ step' = "read"
       ELSE /\ page' = page \o <<Element("title", "exists", <<>>), Element("write", "exists", <<>>),
                                  Element("error", "exists", <<FILE_NAME>>)>>
            /\ step' = "stopped"
    /\ UNCHANGED <<fileExists, raw, session, env_sel, cost_sel, mem_t, dur_t, cold, failedAt,
                   parsed, df, data, df80, rs, pc, low, beta, predicted, cont>>

\* lines 24-25
ReadParse ==
    /\ step = "read"
    /\ IF fileExists
       THEN /\ parsed' = ParseLines(raw)
            /\ step' = "frame"
            /\ UNCHANGED <<failedAt, page>>
       ELSE /\ Raise("read")
            /\ UNCHANGED parsed
    /\ UNCHANGED <<fileExists, raw, session, env_sel, cost_sel, mem_t, dur_t, cold,
                   df, data, df80, rs, pc, low, beta, predicted, cont>>

\* line 26
BuildFrame ==
    /\ step = "frame"
    /\ IF FrameRaises(parsed)
       THEN /\ Raise("frame")
            /\ UNCHANGED df
       ELSE /\ df' = DataFrame(parsed)
            /\ step' = "coerce"
            /\ UNCHANGED <<failedAt, page>>
    /\ UNCHANGED <<fileExists, raw, session, env_sel, cost_sel, mem_t, dur_t, cold,
                   parsed, data, df80, rs, pc, low, beta, predicted, cont>>

\* lines 29-31
CoerceNumeric ==
    /\ step = "coerce"
    /\ IF CoerceRaises(parsed[1])
       THEN /\ Raise("coerce")
            /\ UNCHANGED df
       ELSE /\ df' = Coerce(df)
            /\ step' = "sidebar"
            /\ UNCHANGED <<failedAt, page>>
    /\ UNCHANGED <<fileExists, raw, session, env_sel, cost_sel, mem_t, dur_t, cold,
                   parsed, data, df80, rs, pc, low, beta, predicted, cont>>

\* lines 36-49: the widgets keep the session's values after the first run
Sidebar ==
    /\ step = "sidebar"
    /\ session' = "live"
    /\ env_sel' = IF session = "new" THEN envs(df) ELSE env_sel
    /\ \E o \in SliderOutcomes(df) :
          IF o = "raise"
          THEN /\ Raise("sidebar")
               /\ cost_sel' = <<NaN, NaN>>
               /\ UNCHANGED data
          ELSE /\ cost_sel' = IF session = "new" THEN <<CostMin(df), CostMax(df)>> ELSE cost_sel
               /\ data' = WorkingSet(df, env_sel', cost_sel')
               /\ step' = "metrics"
               /\ UNCHANGED <<failedAt, page>>
    /\ UNCHANGED <<fileExists, raw, mem_t, dur_t, cold, parsed, df,
                   df80, rs, pc, low, beta, predicted, cont>>

\* lines 54-73
Metrics ==
    /\ step = "metrics"
    /\ page' = Append(page,
                 Element("metrics", "metrics",
                         <<Num(SumOf([k \in DOMAIN data |-> Cost(data[k])])),
                           Num(SumOf([k \in DOMAIN data |-> data[k].row["InvocationsPerMonth"]])),
                           Mean([k \in DOMAIN data |-> data[k].row["AvgDurationMs"]]),
                           Mean([k \in DOMAIN data |-> data[k].row["MemoryMB"]]),
                           Num(Len(data))>>))
    /\ step' = "tab1"
    /\ UNCHANGED <<fileExists, raw, session, env_sel, cost_sel, mem_t, dur_t, cold, failedAt,
                   parsed, df, data, df80, rs, pc, low, beta, predicted, cont>>

\* tab1 sorting the working set in place (sort_values(inplace=True))
Tab1InPlace ==
    /\ step = "tab1"
    /\ \E sorted \in SortValuesDesc(data) :
          /\ data' = sorted
          /\ df80' = WithCum(sorted)
          /\ page' = page \o <<Element("dataframe", "tab1", Idx(TopSpenders(df80'))),
                               Element("chart", "tab1", Idx(Head10(df80')))>>
    /\ step' = "tab2"
    /\ UNCHANGED <<fileExists, raw, session, env_sel, cost_sel, mem_t, dur_t, cold, failedAt,
                   parsed, df, rs, pc, low, beta, predicted, cont>>

\* lines 78-95
Tab1 ==
    /\ step = "tab1"
    /\ \E sorted \in SortValuesDesc(data) :
          /\ df80' = WithCum(sorted)
          /\ page' = page \o <<Element("dataframe", "tab1", Idx(TopSpenders(df80'))),
                               Element("chart", "tab1", Idx(Head10(df80')))>>
    /\ step' = "tab2"
    /\ UNCHANGED <<fileExists, raw, session, env_sel, cost_sel, mem_t, dur_t, cold, failedAt,
                   parsed, df, data, rs, pc, low, beta, predicted, cont>>

\* lines 101-112
Tab2 ==
    /\ step = "tab2"
    /\ rs' = RightSizing(data, mem_t, dur_t)
    /\ page' = page \o <<Element("dataframe", "tab2", Idx(rs')),
                         Element("chart", "tab2", Idx(data))>>
    /\ step' = "tab3"
    /\ UNCHANGED <<fileExists, raw, session, env_sel, cost_sel, mem_t, dur_t, cold, failedAt,
                   parsed, df, data, df80, pc, low, beta, predicted, cont>>

\* lines 117-128
Tab3 ==
    /\ step = "tab3"
    /\ pc' = ProvisionedCandidates(data, cold)
    /\ page' = page \o <<Element("dataframe", "tab3", Idx(pc')),
                         Element("chart", "tab3", Idx(data))>>
    /\ step' = "tab4"
    /\ UNCHANGED <<fileExists, raw, session, env_sel, cost_sel, mem_t, dur_t, cold, failedAt,
                   parsed, df, data, df80, rs, low, beta, predicted, cont>>

\* lines 133-142
Tab4 ==
    /\ step = "tab4"
    /\ low' = LowValue(data)
    /\ page' = page \o <<Element("dataframe", "tab4", Idx(low')),
                         Element("chart", "tab4", Idx(data))>>
    /\ step' = "tab5"
    /\ UNCHANGED <<fileExists, raw, session, env_sel, cost_sel, mem_t, dur_t, cold, failedAt,
                   parsed, df, data, df80, rs, pc, beta, predicted, cont>>

\* lines 147-164
Tab5 ==
    /\ step = "tab5"
    /\ \E kind \in Polyfit(Regressor(data), [k \in DOMAIN data |-> Cost(data[k])]) :
          IF PolyfitRaises(kind)
          THEN /\ Raise("tab5")
               /\ UNCHANGED <<beta, predicted>>
          ELSE /\ beta' = kind
               /\ predicted' = Predict(kind)
               /\ page' = page \o <<Element("write", "tab5", <<kind>>),
                                    Element("success", "tab5", <<predicted'>>)>>
               /\ step' = "tab6"
               /\ UNCHANGED failedAt
    /\ UNCHANGED <<fileExists, raw, session, env_sel, cost_sel, mem_t, dur_t, cold,
                   parsed, df, data, df80, rs, pc, low, cont>>

\* lines 169-180
Tab6 ==
    /\ step = "tab6"
    /\ cont' = Containerization(data)
    /\ page' = page \o <<Element("dataframe", "tab6", Idx(cont')),
                         Element("chart", "tab6", Idx(data))>>
    /\ step' = "done"
    /\ UNCHANGED <<fileExists, raw, session, env_sel, cost_sel, mem_t, dur_t, cold, failedAt,
                   parsed, df, data, df80, rs, pc, low, beta, predicted>>

-----------------------------------------------------------------------------
(* The user changes one widget of a finished run; the script runs again     *)
(* from the top with the new value (a change made while a run is under way  *)
(* restarts the script the same way).                                       *)

Drawn(at) == step \in {"done", "error"} /\ StepNo(Reached) >= StepNo(at)

Restart ==
    /\ step' = "exists"
    /\ failedAt' = "none"
    /\ page' = <<>>
    /\ parsed' = <<>>
    /\ df' = <<>>
    /\ data' = <<>>
    /\ df80' = <<>>
    /\ rs' = <<>>
    /\ pc' = <<>>
    /\ low' = <<>>
    /\ beta' = "none"
    /\ predicted' = "none"
    /\ cont' = <<>>
    /\ UNCHANGED <<fileExists, raw, session>>

\* line 39: any subset of the environments of the table
ChangeEnvironment ==
    /\ Drawn("sidebar")
    /\ \E sel \in SUBSET envs(df) : sel # env_sel /\ env_sel' = sel
    /\ Restart
    /\ UNCHANGED <<cost_sel, mem_t, dur_t, cold>>

\* lines 41-43
ChangeCostRange ==
    /\ Drawn("metrics")
    /\ \E cs \in CostRanges(df) : cs # cost_sel /\ cost_sel' = cs
    /\ Restart
    /\ UNCHANGED <<env_sel, mem_t, dur_t, cold>>

\* lines 104, 105, 120
ChangeThreshold ==
    /\ Drawn("tab5")
    /\ \E m \in MemChoices, t \in DurChoices, c \in ColdChoices :
          /\ Cardinality({x \in {<<1, m, mem_t>>, <<2, t, dur_t>>, <<3, c, cold>>} : x[2] # x[3]}) = 1
          /\ mem_t' = m
          /\ dur_t' = t
          /\ cold' = c
    /\ Restart
    /\ UNCHANGED <<env_sel, cost_sel>>

Next ==
    \/ CheckFile
    \/ ReadParse
    \/ BuildFrame
    \/ CoerceNumeric
    \/ Sidebar
    \/ Metrics
    \/ Tab1
    \/ Tab2
    \/ Tab3
    \/ Tab4
    \/ Tab5
    \/ Tab6
    \/ ChangeEnvironment
    \/ ChangeCostRange
    \/ ChangeThreshold

-----------------------------------------------------------------------------
(* Files *)

MaxRows == 2

RECURSIVE Join(_)
Join(cells) ==
    IF Len(cells) = 0 THEN <<>>
    ELSE IF Len(cells) = 1 THEN cells[1]
    ELSE cells[1] \o <<Comma>> \o Join(Tail(cells))

Quoted(line) == <<Quote>> \o line \o <<Quote>>

HeaderLine == Join([k \in DOMAIN Columns |-> <<Columns[k]>>])

SeqsUpTo(S, n) == UNION {[1..k -> S] : k \in 0..n}

\* FunctionName, Environment, InvocationsPerMonth, AvgDurationMs, MemoryMB,
\* ColdStartRate, ProvisionedConcurrency, GBSeconds, DataTransferGB, CostUSD
Record(env, inv, dur, mem, rate, conc, cost) ==
    <<<<"f">>, env, inv, dur, mem, rate, conc, <<"7">>, <<"3">>, cost>>

T3000 == <<"3", "0", "0", "0">>

T2048 == <<"2", "0", "4", "8">>

T400 == <<"4", "0", "0">>

T200 == <<"2", "0", "0">>

Fast == [dur |-> T400, mem |-> T3000, rate |-> <<"2">>, conc |-> <<"1">>]

Slow == [dur |-> T3000, mem |-> T2048, rate |-> <<"9">>, conc |-> <<"0">>]

RecordOf(env, inv, cost, kind) == Record(env, inv, kind.dur, kind.mem, kind.rate, kind.conc, cost)

\* well-formed records: each line wrapped in one pair of quotes
Records ==
    {RecordOf(<<"p">>, <<"1">>, <<"9">>, Fast),
     RecordOf(<<"p">>, T200, <<"1">>, Slow),
     RecordOf(<<"d">>, <<"x">>, <<"9">>, Fast)}

ARecord == RecordOf(<<"p">>, <<"1">>, <<"1", "9">>, Fast)

\* lines the tokenizer does not expect: a missing field, an extra field, an
\* empty line, an opening quote that is never closed
OddLines ==
    {Quoted(Join(SubSeq(ARecord, 1, 9))),
     Quoted(Join(ARecord \o <<<<"z">>>>)),
     <<>>,
     <<Quote>> \o Join(ARecord)}

Lines == {Quoted(Join(r)) : r \in Records} \cup OddLines

\* the empty file; a quoted header with up to MaxRows lines; an unquoted header
\* with up to one line
Files ==
    {<<>>}
    \cup {<<Quoted(HeaderLine)>> \o body : body \in SeqsUpTo(Lines, MaxRows)}
    \cup {<<HeaderLine>> \o body : body \in SeqsUpTo(Lines, 1)}

InitWith(files) ==
    /\ fileExists \in BOOLEAN
    /\ raw \in IF fileExists THEN files ELSE {<<>>}
    /\ session = "new"
    /\ env_sel = {}
    /\ cost_sel = <<NaN, NaN>>
    /\ mem_t = MemDefault
    /\ dur_t = DurDefault
    /\ cold = ColdDefault
    /\ step = "exists"
    /\ failedAt = "none"
    /\ page = <<>>
    /\ Unset

Init == InitWith(Files)

Spec == Init /\ [][Next]_vars

-----------------------------------------------------------------------------
(* Families of well-formed files, each exhaustive in the columns it varies *)

MaxCostRows == 3

QuotedFiles(records, n) ==
    {<<Quoted(HeaderLine)>> \o body : body \in SeqsUpTo({Quoted(Join(r)) : r \in records}, n)}

T10 == <<"1", "0">>

T90 == <<"9", "0">>

\* Environment and CostUSD vary
FilterRecords ==
    {RecordOf(env, <<"1">>, cost, Fast) : env \in {<<"p">>, <<"d">>},
                                            cost \in {<<"x">>, <<"1">>, <<"2">>, <<"9">>}}

InitFilter == InitWith(QuotedFiles(FilterRecords, MaxRows))

SpecFilter == InitFilter /\ [][Next]_vars

\* CostUSD varies, sign included
CostRecords ==
    {RecordOf(<<"p">>, <<"1">>, cost, Slow) : cost \in {<<"-", "5">>, <<"0">>, T10, T90}}

InitCost == InitWith(QuotedFiles(CostRecords, MaxCostRows))

SpecCost == InitCost /\ [][Next]_vars

\* InvocationsPerMonth varies, sign included, with a low and a high cost
InvocationRecords ==
    {RecordOf(<<"p">>, <<"x">>, <<"9">>, Fast),
     RecordOf(<<"p">>, <<"0">>, <<"9">>, Fast),
     RecordOf(<<"p">>, <<"1">>, <<"9">>, Fast),
     RecordOf(<<"p">>, <<"-", "1">>, <<"9">>, Fast),
     RecordOf(<<"p">>, <<"1">>, <<"1">>, Fast),
     RecordOf(<<"p">>, T200, <<"1">>, Fast)}

InitInvocations == InitWith(QuotedFiles(InvocationRecords, MaxRows))

SpecInvocations == InitInvocations /\ [][Next]_vars

-----------------------------------------------------------------------------
(* Properties *)

\* the current run has completed step s
Executed(s) ==
    \/ step \notin {"error", "stopped"} /\ StepNo(step) > StepNo(s)
    \/ step = "error" /\ StepNo(failedAt) > StepNo(s)

\* the bodies of the page elements of a kind put by a step
Shown(kind, at) == {page[i].body : i \in {j \in DOMAIN page : page[j].kind = kind /\ page[j].at = at}}

StrictlyIncreasing(s) == \A i \in 1..(Len(s) - 1) : s[i] < s[i + 1]

\* a row of df matches the filter inputs: environment selected, cost present and
\* inside the closed range
Matches(i) ==
    /\ df[i]["Environment"] \in env_sel
    /\ df[i]["CostUSD"] # NaN
    /\ cost_sel[1] # NaN
    /\ cost_sel[2] # NaN
    /\ cost_sel[1][1] <= df[i]["CostUSD"][1]
    /\ df[i]["CostUSD"][1] <= cost_sel[2][1]

\* C1: the working set is exactly the order-preserving subsequence of the base
\* table's rows whose Environment is selected and whose CostUSD is present and
\* within [min, max], both ends included: no row fabricated, none dropped,
\* rows with missing CostUSD never kept, order unchanged.
C1_WorkingSetIsExactFilter ==
    Executed("sidebar") =>
        /\ StrictlyIncreasing(Idx(data))
        /\ {data[k].idx : k \in DOMAIN data} = {i \in DOMAIN df : Matches(i)}
        /\ \A k \in DOMAIN data : data[k].idx \in DOMAIN df /\ data[k].row = df[data[k].idx]

\* a finished run that kept a row whose cost sits on the upper end of the range
\* and dropped a row of a selected environment for its missing cost
C1_Witness ==
    /\ step = "done"
    /\ data # <<>>
    /\ Len(data) < Len(df)
    /\ \E k \in DOMAIN data : Cost(data[k]) = cost_sel[2]
    /\ \E i \in DOMAIN df : df[i]["Environment"] \in env_sel /\ df[i]["CostUSD"] = NaN

\* C2: with the input file absent the run shows an error naming the file and
\* halts; no later step (read, parse, coercion, filter, metrics, views, fit) runs.
C2_MissingFileHalts ==
    ~fileExists =>
        /\ step \in {"exists", "stopped"}
        /\ Unset
        /\ session = "new"
        /\ failedAt = "none"
        /\ \A i \in DOMAIN page : page[i].at = "exists"
        /\ step = "stopped" => page[Len(page)] = Element("error", "exists", <<FILE_NAME>>)

C2_Witness ==
    /\ ~fileExists
    /\ step = "stopped"
    /\ Shown("error", "exists") = {<<FILE_NAME>>}

\* the table a fresh load of the file yields
FreshTable == Coerce(DataFrame(ParseLines(raw)))

\* C3: after any sequence of widget changes the base table equals the table
\* created at load, and the working set with its CostShare% and Invocation%
\* columns equals a fresh computation from that table and the current filter
\* inputs; no later step of the run changes either.
C3_TableImmutableAndWorkingSetFresh ==
    /\ Executed("coerce") => df = FreshTable
    /\ Executed("sidebar") => data = WorkingSet(FreshTable, env_sel, cost_sel)

\* a finished run after the user changed the environments, the cost range and a
\* threshold, with a working set that keeps some rows and drops others
C3_Witness ==
    /\ step = "done"
    /\ env_sel # envs(df)
    /\ cost_sel # <<CostMin(df), CostMax(df)>>
    /\ mem_t # MemDefault
    /\ data # <<>>
    /\ Len(data) < Len(df)

\* the rows shown by tab1's table, by index label
TopShown == CHOOSE b \in Shown("dataframe", "tab1") : TRUE

\* the cost of the k-th row of the cost-descending table, the running sum up to it
\* and the total, read from the base table
SortedCost(k) == df[df80[k].idx]["CostUSD"][1]

RECURSIVE Running(_)
Running(k) == IF k = 0 THEN 0 ELSE Running(k - 1) + SortedCost(k)

TotalCost == Running(Len(df80))

\* running / total * 100 <= 80, with IEEE results for a zero total
CumAtMost80(k) ==
    \/ TotalCost > 0 /\ 100 * Running(k) <= 80 * TotalCost
    \/ TotalCost < 0 /\ 100 * Running(k) >= 80 * TotalCost
    \/ TotalCost = 0 /\ Running(k) < 0

\* df80 holds the rows of the working set, each once, by descending cost
SortedDescending ==
    /\ Len(df80) = Len(data)
    /\ {df80[k].idx : k \in DOMAIN df80} = {data[k].idx : k \in DOMAIN data}
    /\ \A k \in 1..(Len(df80) - 1) : SortedCost(k) >= SortedCost(k + 1)

\* C4: the rows tab1 shows are exactly the longest prefix of the working set
\* sorted by CostUSD descending in which every row has running cumulative
\* percentage <= 80; the shown rows are contiguous from the top.
C4_TopSpendersIsLongestPrefix ==
    Executed("tab1") =>
        /\ SortedDescending
        /\ Len(TopShown) <= Len(df80)
        /\ TopShown = [k \in 1..Len(TopShown) |-> df80[k].idx]
        /\ \A k \in 1..Len(TopShown) : CumAtMost80(k)
        /\ Len(TopShown) < Len(df80) => ~CumAtMost80(Len(TopShown) + 1)

\* tab1 shows a non-empty proper prefix of a working set that holds a negative cost
C4_Witness ==
    /\ Executed("tab1")
    /\ TopShown # <<>>
    /\ Len(TopShown) + 1 < Len(df80)
    /\ \E k \in DOMAIN df80 : SortedCost(k) < 0

\* running / total * 100 > 80 and < 80, with IEEE results for a zero total
CumAbove80(k) ==
    \/ TotalCost > 0 /\ 100 * Running(k) > 80 * TotalCost
    \/ TotalCost < 0 /\ 100 * Running(k) < 80 * TotalCost
    \/ TotalCost = 0 /\ Running(k) > 0

CumBelow80(k) ==
    \/ TotalCost > 0 /\ 100 * Running(k) < 80 * TotalCost
    \/ TotalCost < 0 /\ 100 * Running(k) > 80 * TotalCost
    \/ TotalCost = 0 /\ Running(k) < 0

\* the working set is exactly two rows, of cost 10 and 90
TenAndNinety ==
    /\ Len(df80) = 2
    /\ SortedCost(1) = 90
    /\ SortedCost(2) = 10

\* C5 as stated: a row whose inclusion moves the running cumulative percentage
\* from below 80 to above 80 is among the top spenders; for two rows of cost 10
\* and 90 the top spenders are exactly the 90-cost row.
C5_CrossingRowIncluded ==
    Executed("tab1") =>
        /\ \A k \in DOMAIN df80 :
              CumBelow80(k - 1) /\ CumAbove80(k) => df80[k].idx \in Range(TopShown)
        /\ TenAndNinety => TopShown = <<df80[1].idx>>

\* C5 amended: a row whose running cumulative percentage is above 80 is never
\* among the top spenders, the row that crosses 80 included; for two rows of
\* cost 10 and 90 the top spenders are empty.
C5_CrossingRowExcluded ==
    Executed("tab1") =>
        /\ \A k \in DOMAIN df80 : CumAbove80(k) => df80[k].idx \notin Range(TopShown)
        /\ TenAndNinety => TopShown = <<>>

\* tab1 ran on the two rows of cost 10 and 90: the 90-cost row crosses 80 at once
C5_Witness ==
    /\ Executed("tab1")
    /\ TenAndNinety
    /\ CumBelow80(0)
    /\ CumAbove80(1)
    /\ TopShown = <<>>

\* Cum% of one row exceeds 100; Cum% of a row is above that of the next
\* (quotients over the same total; no comparison with NaN is true)
Exceeds100(q) ==
    /\ q # NaN
    /\ IF q[2] > 0 THEN q[1] > 100 * q[2]
       ELSE IF q[2] < 0 THEN q[1] < 100 * q[2]
       ELSE q[1] > 0

Above(a, b) ==
    /\ a # NaN
    /\ b # NaN
    /\ IF a[2] > 0 THEN a[1] > b[1]
       ELSE IF a[2] < 0 THEN a[1] < b[1]
       ELSE a[1] > 0 /\ b[1] < 0

CumColumnMonotoneUpTo100 ==
    /\ \A k \in DOMAIN df80 : ~Exceeds100(df80[k].Cum)
    /\ \A k \in 1..(Len(df80) - 1) : ~Above(df80[k].Cum, df80[k + 1].Cum)

\* C6 as stated: for every working set the filter can produce, costs of either
\* sign included, Cum% never decreases from a row to the next and never exceeds 100.
C6_CumMonotoneAnySign == Executed("tab1") => CumColumnMonotoneUpTo100

\* C6 amended: when every CostUSD of the working set is non-negative, Cum% never
\* decreases from a row to the next and never exceeds 100.
C6_CumMonotoneNonNegative ==
    Executed("tab1") /\ (\A k \in DOMAIN df80 : SortedCost(k) >= 0) => CumColumnMonotoneUpTo100

\* tab1 ran on three rows of non-negative cost, two of them different and one zero
C6_Witness ==
    /\ Executed("tab1")
    /\ Len(df80) = 3
    /\ SortedCost(1) > SortedCost(2)
    /\ SortedCost(2) > 0
    /\ SortedCost(3) = 0
    /\ df80[3].Cum = <<100 * TotalCost, TotalCost>>

\* tab5 has run or raised
AttemptedTab5 == Executed("tab5") \/ (step = "error" /\ failedAt = "tab5")

\* rows of the working set with all four forecast columns present
ValidRows ==
    {k \in DOMAIN data :
        /\ data[k].row["InvocationsPerMonth"] # NaN
        /\ data[k].row["AvgDurationMs"] # NaN
        /\ data[k].row["MemoryMB"] # NaN
        /\ data[k].row["CostUSD"] # NaN}

\* C7: with fewer than 2 valid rows the forecast step produces no coefficients
\* and no predicted cost, shows a model-fit error message in their place, and
\* does not abort the run (stated for tables in which some cost parsed, where
\* the cost slider is well defined).
C7_TooFewRowsGiveModelFitError ==
    AttemptedTab5 /\ CostValues(df) # {} /\ Cardinality(ValidRows) < 2 =>
        /\ beta = "none"
        /\ predicted = "none"
        /\ Shown("write", "tab5") = {}
        /\ Shown("success", "tab5") = {}
        /\ Shown("error", "tab5") # {}
        /\ step # "error"

\* C8: when the selection and the range keep no row of a table, the working set
\* is empty and the run goes through all six views; each view is produced, with
\* an empty table, and none aborts the run.
C8_EmptyWorkingSetRunsAllViews ==
    Executed("sidebar") /\ CostValues(df) # {} /\ data = <<>> =>
        /\ step # "error"
        /\ \A tab \in {"tab1", "tab2", "tab3", "tab4", "tab6"} :
              Executed(tab) => Shown("dataframe", tab) = {<<>>}
        /\ Executed("tab5") => Shown("error", "tab5") # {} \/ Shown("write", "tab5") # {}

\* the text of a line that is split: the line, or the line without its first and
\* last character when it starts with a quote
SplitText(line) ==
    IF line # <<>> /\ line[1] = Quote
    THEN [k \in 1..(IF Len(line) >= 2 THEN Len(line) - 2 ELSE 0) |-> line[k + 1]]
    ELSE line

\* toks are the pieces of text between its commas, in order
SplitOnEveryComma(toks, text) ==
    /\ Len(toks) = 1 + Cardinality({k \in DOMAIN text : text[k] = Comma})
    /\ \A j \in DOMAIN toks : \A k \in DOMAIN toks[j] : toks[j][k] # Comma
    /\ Join(toks) = text

\* every line is tokenized by the rule, on its own
TokenizedByRule ==
    /\ Len(parsed) = Len(raw)
    /\ \A i \in DOMAIN raw : SplitOnEveryComma(parsed[i], SplitText(raw[i]))

\* the table holds one row per line after the first, in file order, the tokens
\* matched to the header's by position
RowsMatchHeaderByPosition ==
    /\ Len(df) = Len(raw) - 1
    /\ \A i \in DOMAIN df :
          \A k \in DOMAIN parsed[1] :
              k <= Len(parsed[i + 1]) => df[i][ColumnName(parsed[1][k])] = parsed[i + 1][k]

\* C9: every line is tokenized on its own by the quote-strip-and-split rule, the
\* first line gives the headers and each later line one row, matched by
\* position, and a row whose token count differs from the header's does not
\* crash the load.
C9_TokenizerAndRaggedRows ==
    /\ Executed("read") => TokenizedByRule
    /\ step = "coerce" => RowsMatchHeaderByPosition
    /\ raw # <<>> => ~(step = "error" /\ failedAt = "frame")

\* the tokenizer and the positional match alone
C9_TokenizerPart ==
    /\ Executed("read") => TokenizedByRule
    /\ step = "coerce" => RowsMatchHeaderByPosition

\* the rows shown by tab4's table, by index label
LowShown == CHOOSE b \in Shown("dataframe", "tab4") : TRUE

InvocationsOf(k) == data[k].row["InvocationsPerMonth"]

\* the sum of the invocations present in the first k rows of the working set
RECURSIVE InvocationsUpTo(_)
InvocationsUpTo(k) ==
    IF k = 0 THEN 0
    ELSE InvocationsUpTo(k - 1) + (IF InvocationsOf(k) = NaN THEN 0 ELSE InvocationsOf(k)[1])

InvocationSum == InvocationsUpTo(Len(data))

\* the j-th smallest cost of the working set
Smallest(j) ==
    CHOOSE v \in {Cost(data[k])[1] : k \in DOMAIN data} :
        /\ Cardinality({k \in DOMAIN data : Cost(data[k])[1] < v}) < j
        /\ Cardinality({k \in DOMAIN data : Cost(data[k])[1] <= v}) >= j

\* CostUSD of row k is strictly above the median cost of the working set
CostAboveMedian(k) ==
    2 * Cost(data[k])[1] > Smallest((Len(data) + 1) \div 2) + Smallest(Len(data) \div 2 + 1)

\* Invocation% of row k is strictly below 1, for a non-zero invocation sum
ShareBelowOne(k) ==
    /\ InvocationsOf(k) # NaN
    /\ \/ InvocationSum > 0 /\ 100 * InvocationsOf(k)[1] < InvocationSum
       \/ InvocationSum < 0 /\ 100 * InvocationsOf(k)[1] > InvocationSum

\* the same with the IEEE quotient for a zero sum: a negative value over zero is
\* minus infinity, which is below 1
ShareBelowOneIEEE(k) ==
    /\ InvocationsOf(k) # NaN
    /\ \/ ShareBelowOne(k)
       \/ InvocationSum = 0 /\ InvocationsOf(k)[1] < 0

KeptInOrder(keep) == [j \in DOMAIN keep |-> data[keep[j]].idx]

C10_WitnessPositiveSum ==
    /\ Executed("tab4")
    /\ LowShown # <<>>
    /\ Len(LowShown) < Len(data)
    /\ InvocationSum > 0

====
